---- MODULE Spec2Model ----
(***************************************************************************)
(* Model of the metadata cache subsystem of the Trakt proxy:               *)
(*   backend/app.js          the /api/trakt-new/* caching route and the    *)
(*                           batch item extractor                          *)
(*   backend/lib/db-mongodb.js  cacheResponse / getCachedResponse /        *)
(*                           updateCachedResponse                          *)
(* JavaScript values are modelled as tagged records, so that property      *)
(* access, truthiness, object spread and delete are computed as the        *)
(* JavaScript code computes them.                                          *)
(***************************************************************************)
EXTENDS Integers, Sequences, FiniteSets, TLC

VARIABLES
  clientId,     \* TRAKT_CLIENT_ID is configured
  isConnected,  \* Database.isConnected
  cache,        \* the 'cache' collection: key -> document (its fields)
  wrote,        \* history variable: key -> who wrote the document last
  now,          \* wall clock, in milliseconds
  ticks,        \* clock advances made so far
  faults,       \* store failures injected so far
  rq,           \* the requests started so far, each with its handler state
  scenario,     \* which group of request targets this run draws from
  calls,        \* the direct calls of the store's methods made so far
  dups          \* documents inserted under a key that already had a document

vars ==
  <<clientId, isConnected, cache, wrote, now, ticks, faults, rq, scenario, calls,
    dups>>

----------------------------------------------------------------------------
(* Bounds of the model *)

MaxRequests == 3
MaxTicks == 2
MaxFaults == 2
MaxCalls == 3

(* Program constants *)

MsPerSecond == 1000
SecondsPerMinute == 60
MinutesPerHour == 60
TTLHours == 24
\* the freshness windows the API documentation states for search results and
\* for popular/trending lists
SearchTTLMinutes == 30
ListTTLHours == 2

MsPerHour == MsPerSecond * SecondsPerMinute * MinutesPerHour

\* the clock advances in steps of the freshness window: an entry is seen
\* fresh, exactly 24 hours old, and older
TickMs == TTLHours * MsPerHour

----------------------------------------------------------------------------
(* JavaScript values *)

Undefined == [t |-> "undefined"]
Null == [t |-> "null"]
Bool(b) == [t |-> "boolean", b |-> b]
Str(s) == [t |-> "string", s |-> s]
Num(n) == [t |-> "number", n |-> n]
DateV(ms) == [t |-> "date", ms |-> ms]
Obj(f) == [t |-> "object", f |-> f]
Arr(a) == [t |-> "array", a |-> a]

NoFields == [k \in {} |-> Undefined]

\* a cache key is a string, kept as the sequence of the pieces it is built from
KeyStr(toks) == [t |-> "string", toks |-> toks]

Truthy(v) ==
  CASE v.t = "undefined" -> FALSE
    [] v.t = "null" -> FALSE
    [] v.t = "boolean" -> v.b
    [] v.t = "number" -> v.n # 0
    [] v.t = "string" -> IF "s" \in DOMAIN v THEN v.s # "" ELSE v.toks # <<>>
    [] OTHER -> TRUE

\* reading a property of undefined or null throws a TypeError
Readable(v) == v.t \notin {"undefined", "null"}

\* v.k for a readable v
Get(v, k) == IF v.t = "object" /\ k \in DOMAIN v.f THEN v.f[k] ELSE Undefined

\* a && b, a || b
AndV(a, b) == IF Truthy(a) THEN b ELSE a
OrV(a, b) == IF Truthy(a) THEN a ELSE b

Digits == <<"0", "1", "2", "3", "4", "5", "6", "7", "8", "9">>

\* the decimal string of a small non-negative integer
IdToString(n) == Digits[n + 1]

\* key.match(/^\d+$/)
IsNumericKey(k) == \E i \in 1..Len(Digits) : Digits[i] = k

\* the own enumerable properties { ...v } copies
Spread(v) ==
  CASE v.t = "object" -> v.f
    [] v.t = "array" ->
         [k \in {IdToString(i - 1) : i \in 1..Len(v.a)} |->
            v.a[(CHOOSE i \in 1..Len(v.a) : IdToString(i - 1) = k)]]
    [] OTHER -> NoFields

\* { ...f, k: v }
With(f, k, v) == [j \in DOMAIN f \cup {k} |-> IF j = k THEN v ELSE f[j]]

\* delete f.k
Without(f, k) == [j \in DOMAIN f \ {k} |-> f[j]]

\* Array.isArray(v)
IsArray(v) == v.t = "array"

\* typeof v === 'object' && v !== null
IsObject(v) == v.t \in {"object", "array", "date"}

\* JSON.stringify as res.json applies it: properties holding undefined are dropped
RECURSIVE ToJSON(_)
ToJSON(v) ==
  CASE v.t = "object" ->
         Obj([k \in {j \in DOMAIN v.f : v.f[j] # Undefined} |-> ToJSON(v.f[k])])
    [] v.t = "array" -> Arr([i \in 1..Len(v.a) |->
                              IF v.a[i] = Undefined THEN Null ELSE ToJSON(v.a[i])])
    [] OTHER -> v

\* the BSON encoding of a document field: undefined is stored as null
RECURSIVE ToBSON(_)
ToBSON(v) ==
  CASE v.t = "undefined" -> Null
    [] v.t = "object" -> Obj([k \in DOMAIN v.f |-> ToBSON(v.f[k])])
    [] v.t = "array" -> Arr([i \in 1..Len(v.a) |-> ToBSON(v.a[i])])
    [] OTHER -> v

----------------------------------------------------------------------------
(* Requests, paths and cache keys.  A path is the sequence of its segments: *)
(* <<"movies", "1">> is /movies/1.  qs is the raw query string, "" if none. *)

Req(method, segs, qs) == [method |-> method, segs |-> segs, qs |-> qs]

\* JSON.stringify(req.query) for the query strings of the model
QueryJSON(qs) == IF qs = "" THEN "{}" ELSE "{" \o qs \o "}"

\* path = req.originalUrl.replace("/api/trakt-new", ""): the query string stays in it
PathToks(r) ==
  [i \in 1..(2 * Len(r.segs)) |-> IF i % 2 = 1 THEN "/" ELSE r.segs[i \div 2]]
    \o (IF r.qs = "" THEN <<>> ELSE <<"?", r.qs>>)

\* path.startsWith("/" + p[1] + "/" + ... + "/")
StartsWith(r, p) ==
  /\ Len(r.segs) > Len(p)
  /\ \A i \in 1..Len(p) : r.segs[i] = p[i]

\* path.includes("/" + seg + "/")
IncludesDir(r, seg) == \E i \in 1..(Len(r.segs) - 1) : r.segs[i] = seg

\* path.includes("/" + seg)
IncludesSeg(r, seg) == \E i \in 1..Len(r.segs) : r.segs[i] = seg

CachePrefixes ==
  { <<"movies">>, <<"shows">>, <<"search">>, <<"movies", "trending">>,
    <<"shows", "trending">>, <<"movies", "popular">>, <<"shows", "popular">> }

\* the test that guards the cache lookup
IsCacheable(r) ==
  /\ r.method = "GET"
  /\ \E p \in CachePrefixes : StartsWith(r, p)

\* cacheKey = path + JSON.stringify(query)
CacheKey(r) == PathToks(r) \o <<QueryJSON(r.qs)>>

\* a movie item key that is the primary key of the movie's detail path
MovieItemKey_Path(id) == <<"/", "movies", "/", IdToString(id), "{}">>

\* `trakt-movies-${movieId}` and `trakt-shows-${showId}`
MovieItemKey(id) == <<"trakt-movies-", IdToString(id)>>
ShowItemKey(id) == <<"trakt-shows-", IdToString(id)>>

----------------------------------------------------------------------------
(* The cache store.  A document is the function of its fields.              *)

\* a freshness test that also expires an entry exactly 24 hours old
Expired_AtLimit(doc, t) ==
  /\ "createdAt" \in DOMAIN doc
  /\ doc.createdAt.t = "date"
  /\ t - doc.createdAt.ms >= TTLHours * MsPerHour

\* hoursDiff > 24, with hoursDiff = (now - cachedTime) / (1000 * 60 * 60);
\* a createdAt that is no date gives NaN, which is not greater than 24
Expired(doc, t) ==
  /\ "createdAt" \in DOMAIN doc
  /\ doc.createdAt.t = "date"
  /\ t - doc.createdAt.ms > TTLHours * MsPerHour

\* a lookup that does not test isConnected
GetCachedResponse_Unguarded(c, key, t) ==
  IF key \notin DOMAIN c THEN Null
  ELSE IF Expired(c[key], t) THEN Null
  ELSE Obj(c[key])

\* what getCachedResponse(key) returns at time t
GetCachedResponse(c, key, t) ==
  IF ~isConnected THEN Null
  ELSE IF key \notin DOMAIN c THEN Null
  ELSE IF Expired(c[key], t) THEN Null
  ELSE Obj(c[key])

\* updateOne({key}, {$set: {data, createdAt: new Date()}}, {upsert: true})
Upsert(c, key, data, t) ==
  LET old == IF key \in DOMAIN c THEN c[key] ELSE [key |-> KeyStr(key)]
      doc == With(With(old, "data", ToBSON(data)), "createdAt", DateV(t))
  IN [k \in DOMAIN c \cup {key} |-> IF k = key THEN doc ELSE c[k]]

\* the document an upsert inserts when no document matches { key }
InsertedDoc(key, data, t) ==
  With(With([key |-> KeyStr(key)], "data", ToBSON(data)), "createdAt", DateV(t))

\* the collection after cacheResponse(key, data) at time t
CacheResponse(c, key, data, t) ==
  IF ~isConnected THEN c ELSE Upsert(c, key, data, t)

\* an update that also resets createdAt
UpdateCachedResponse_Touch(c, key, data, t) ==
  IF ~isConnected THEN c
  ELSE IF key \notin DOMAIN c THEN c
  ELSE [c EXCEPT ![key] =
          With(With(With(c[key], "data", ToBSON(data)), "updatedAt", DateV(t)),
               "createdAt", DateV(t))]

\* an update with { upsert: true }
UpdateCachedResponse_Upsert(c, key, data, t) ==
  IF ~isConnected THEN c
  ELSE LET old == IF key \in DOMAIN c THEN c[key] ELSE [key |-> KeyStr(key)]
           doc == With(With(old, "data", ToBSON(data)), "updatedAt", DateV(t))
       IN [k \in DOMAIN c \cup {key} |-> IF k = key THEN doc ELSE c[k]]

\* the collection after updateCachedResponse(key, data) at time t
UpdateCachedResponse(c, key, data, t) ==
  IF ~isConnected THEN c
  ELSE IF key \notin DOMAIN c THEN c
  ELSE [c EXCEPT ![key] =
          With(With(c[key], "data", ToBSON(data)), "updatedAt", DateV(t))]

----------------------------------------------------------------------------
(* The read path of the caching route: the three stored shapes.             *)

\* if (f.k !== undefined) delete f.k
StripMarker(f, k) == IF k \in DOMAIN f /\ f[k] # Undefined THEN Without(f, k) ELSE f

DoubleNested(cached) ==
  Truthy(Get(cached, "data")) /\ Truthy(Get(Get(cached, "data"), "data"))

SingleNested(cached) == Truthy(Get(cached, "data"))

\* which of the three branches of the read path a stored entry takes
Shape(cached) ==
  IF DoubleNested(cached) THEN "double"
  ELSE IF SingleNested(cached) THEN "single"
  ELSE "direct"

\* `cached` after the handler's deletes: in the direct shape data is the
\* same object as cached, so the deletes act on cached too
CachedAfter(cached) ==
  IF DoubleNested(cached) \/ SingleNested(cached) THEN cached
  ELSE Obj(StripMarker(StripMarker(cached.f, "_hasImages"), "_cacheStatus"))

\* `data` on a hit
HitData(cached) ==
  IF DoubleNested(cached) THEN Get(Get(cached, "data"), "data")
  ELSE IF SingleNested(cached) THEN Get(cached, "data")
  ELSE CachedAfter(cached)

\* `cacheStatus` on a hit
HitStatus(cached) ==
  IF DoubleNested(cached) \/ SingleNested(cached) THEN Str("HIT")
  ELSE OrV(Get(cached, "_cacheStatus"), Str("HIT"))

\* `hasImages`, which the handler computes after the deletes
HasImages(cached) ==
  LET c == CachedAfter(cached)
  IN IF Get(c, "_hasImages") # Undefined THEN Get(c, "_hasImages")
     ELSE IF Truthy(Get(c, "data")) /\ Get(Get(c, "data"), "hasImages") # Undefined
          THEN Get(Get(c, "data"), "hasImages")
     ELSE Bool(FALSE)

\* if (!hasImages && path.startsWith("/movies/"))
NeedsEnrich(r, hasImages) == ~Truthy(hasImages) /\ StartsWith(r, <<"movies">>)

\* if (imagesData.movie && imagesData.movie.images), with the TypeError of a
\* null imagesData caught by the enrichment's try
ImagesFound(imagesData) ==
  /\ Readable(imagesData)
  /\ Truthy(AndV(Get(imagesData, "movie"), Get(Get(imagesData, "movie"), "images")))

\* v.k = x
SetProp(v, k, x) == IF v.t = "object" THEN Obj(With(v.f, k, x)) ELSE v

\* data.movie = { ...data.movie, images: imagesData.movie.images }
MergeImages(data, imagesData) ==
  SetProp(data, "movie",
          Obj(With(Spread(Get(data, "movie")), "images",
                   Get(Get(imagesData, "movie"), "images"))))

\* { ...data, _hasImages: h, _cacheStatus: "HIT" }
Marked(data, h) ==
  Obj(With(With(Spread(data), "_hasImages", h), "_cacheStatus", Str("HIT")))

\* const hasImages = data.movie && data.movie.images   (miss path, data readable)
FetchedHasImages(data) == AndV(Get(data, "movie"), Get(Get(data, "movie"), "images"))

----------------------------------------------------------------------------
(* The batch item extractor.  Decoding a list response touches no state, so  *)
(* it is computed as the sequence of cacheMovieItem / cacheShowItem calls    *)
(* that reach the store, each with its key and payload, in call order.       *)

\* cacheMovieItem(item) / cacheShowItem(item) up to the store lookup:
\* no call if the item has no ids.trakt
ItemCall(kind, item) ==
  LET it == OrV(Get(item, kind), item)
      id == Get(Get(it, "ids"), "trakt")
  IN IF ~Truthy(it) \/ ~Truthy(Get(it, "ids")) \/ ~Truthy(id) THEN <<>>
     ELSE << [ kind |-> kind,
               key |-> IF kind = "movie" THEN MovieItemKey(id.n) ELSE ShowItemKey(id.n),
               payload |-> Obj(With(With(With(Spread(it),
                             "_hasImages", Bool(Truthy(Get(it, "images")))),
                             "_cacheStatus", Str("HIT")),
                             "_source", Str("trending-popular"))) ] >>

\* one element of an array response
ArrayElemCalls(item, isMovie, isShow) ==
  IF isMovie /\ Truthy(Get(item, "movie")) THEN ItemCall("movie", Get(item, "movie"))
  ELSE IF isShow /\ Truthy(Get(item, "show")) THEN ItemCall("show", Get(item, "show"))
  ELSE <<>>

\* the array branch; item.movie on a null element throws, which ends the loop
RECURSIVE ArrayCalls(_, _, _, _)
ArrayCalls(a, i, isMovie, isShow) ==
  IF i > Len(a) THEN <<>>
  ELSE IF ~Readable(a[i]) THEN <<>>
  ELSE ArrayElemCalls(a[i], isMovie, isShow) \o ArrayCalls(a, i + 1, isMovie, isShow)

\* one numeric-keyed element of an object response
KeyedElemCalls(item, isMovie, isShow) ==
  LET hasMovieFields ==
        AndV(item, OrV(OrV(Get(item, "title"), Get(item, "year")), Get(item, "released")))
      hasShowFields ==
        AndV(item, OrV(OrV(Get(item, "first_aired"), Get(item, "seasons")),
                       Get(item, "episode_count")))
  IN IF isMovie /\ Truthy(hasMovieFields) THEN ItemCall("movie", item)
     ELSE IF isShow /\ Truthy(hasShowFields) THEN ItemCall("show", item)
     ELSE IF Truthy(hasMovieFields) /\ Truthy(Get(item, "movie")) THEN ItemCall("movie", item)
     ELSE IF Truthy(hasShowFields) /\ Truthy(Get(item, "show")) THEN ItemCall("show", item)
     ELSE IF isMovie /\ Truthy(item) THEN ItemCall("movie", item)
     ELSE IF isShow /\ Truthy(item) THEN ItemCall("show", item)
     ELSE <<>>

\* the object branch: for (const key in data), integer keys in ascending order
RECURSIVE KeyedCalls(_, _, _, _)
KeyedCalls(f, i, isMovie, isShow) ==
  IF i > Len(Digits) THEN <<>>
  ELSE (IF Digits[i] \in DOMAIN f THEN KeyedElemCalls(f[Digits[i]], isMovie, isShow)
        ELSE <<>>) \o KeyedCalls(f, i + 1, isMovie, isShow)

\* saveIndividualItemsFromResponse(data, path); the last two branches of the
\* code are reached only by a data that is no object, which has no .movie
SeedPlan(data, r) ==
  LET isMovie == IncludesDir(r, "movies")
      isShow == IncludesDir(r, "shows")
  IN IF ~isMovie /\ ~isShow THEN <<>>
     ELSE IF IsArray(data) THEN ArrayCalls(data.a, 1, isMovie, isShow)
     ELSE IF IsObject(data) /\ data.t = "object" THEN KeyedCalls(data.f, 1, isMovie, isShow)
     ELSE <<>>

\* if (path.includes('/trending') || path.includes('/popular'))
IsListPath(r) == IncludesSeg(r, "trending") \/ IncludesSeg(r, "popular")

----------------------------------------------------------------------------
(* The request targets and the upstream's answers the model draws from.     *)

MovieDetail == Req("GET", <<"movies", "1">>, "")
ShowDetail == Req("GET", <<"shows", "1">>, "")
MovieTrending == Req("GET", <<"movies", "trending">>, "")
ShowPopular == Req("GET", <<"shows", "popular">>, "")
SearchMovie == Req("GET", <<"search", "movie">>, "query=alien")
\* requests that fail the cacheability test: a path off the prefixes, a path
\* off the prefixes that names a movie list, a non-GET on a prefix
PeopleDetail == Req("GET", <<"people", "1">>, "")
CalendarTrending == Req("GET", <<"calendars", "movies", "trending">>, "")
PostMovie == Req("POST", <<"movies", "1">>, "")
\* a CORS preflight
OptionsMovie == Req("OPTIONS", <<"movies", "1">>, "")

Images == Obj([poster |-> Str("poster.jpg")])

\* a movie, with or without images, as the provider describes it
Movie(id, title, withImages) ==
  LET base == [title |-> Str(title), ids |-> Obj([trakt |-> Num(id)])]
  IN Obj(IF withImages THEN With(base, "images", Images) ELSE base)

Show(id, title) ==
  Obj([title |-> Str(title), ids |-> Obj([trakt |-> Num(id)]),
       first_aired |-> Str("2017")])

\* answers to /movies/1?extended=full,images
BareMovie == Movie(1, "Alien", TRUE)
WrappedNoImages == Obj([movie |-> Obj([title |-> Str("Alien")])])
WrappedImages == Obj([movie |-> Obj([title |-> Str("Alien"), images |-> Images])])
\* the answer after the provider has changed the movie's title
WrappedRetitled == Obj([movie |-> Obj([title |-> Str("Aliens"), images |-> Images])])

\* answers to /movies/trending and /shows/popular
MovieList == Arr(<< Obj([watchers |-> Num(5), movie |-> Movie(1, "Alien", FALSE)]),
                    Obj([watchers |-> Num(3), movie |-> Movie(2, "Brazil", TRUE)]) >>)
MovieListNoId == Arr(<< Obj([movie |-> Obj([title |-> Str("Alien")])]),
                        Obj([movie |-> Movie(2, "Brazil", TRUE)]) >>)
MovieListNull == Arr(<< Null, Obj([movie |-> Movie(2, "Brazil", TRUE)]) >>)
ShowList == Arr(<< Obj([show |-> Show(1, "Dark")]) >>)

\* a list endpoint answered with one wrapped item instead of an array
SingleMovie == Obj([watchers |-> Num(5), movie |-> Movie(1, "Alien", FALSE)])
SingleShow == Obj([watchers |-> Num(5), show |-> Show(1, "Dark")])

SearchResult == Arr(<< Obj([type |-> Str("movie"), movie |-> Movie(1, "Alien", FALSE)]) >>)

Person == Obj([name |-> Str("Ridley Scott"), ids |-> Obj([trakt |-> Num(1)])])

\* the JSON body of an upstream answer with an error status
ErrorBody == Obj([error |-> Str("not found")])

\* Each run draws one scenario: its request targets, whether requests overlap,
\* whether the clock advances and whether store operations may fail.
Scenarios ==
  { "movie", "movie-overlap", "show", "legacy",
    "movielist", "movielist-detail", "movielist-offline", "movielist-overlap",
    "fault", "showlist", "search", "offline",
    "passthrough", "oldroute", "upstream-error", "store", "single",
    "upsert-race", "lost-update", "post" }

Targets(sc) ==
  CASE sc \in {"movie", "movie-overlap", "upsert-race", "lost-update"} -> {MovieDetail}
    [] sc = "upstream-error" -> {MovieDetail, PeopleDetail}
    [] sc = "passthrough" -> {PeopleDetail, CalendarTrending, PostMovie, OptionsMovie}
    [] sc = "oldroute" -> {MovieDetail, PostMovie, OptionsMovie}
    [] sc = "store" -> {}
    [] sc = "show" -> {ShowDetail}
    [] sc = "legacy" -> {MovieDetail, ShowDetail}
    [] sc \in {"movielist-detail", "fault", "offline"} -> {MovieTrending, MovieDetail}
    [] sc \in {"movielist", "movielist-offline", "movielist-overlap"} -> {MovieTrending}
    [] sc = "showlist" -> {ShowPopular}
    [] sc = "single" -> {MovieTrending, ShowPopular}
    [] sc = "post" -> {MovieDetail, PostMovie}
    [] sc = "search" -> {SearchMovie}

\* the bodies the upstream may answer a request with
Bodies(sc, r) ==
  CASE r = MovieDetail ->
         (IF sc = "movie" THEN {BareMovie, WrappedNoImages, WrappedImages}
          ELSE IF sc \in {"movie-overlap", "upsert-race"}
               THEN {WrappedNoImages, WrappedImages}
          ELSE IF sc = "lost-update" THEN {WrappedImages, WrappedRetitled}
          ELSE IF sc = "fault" THEN {WrappedNoImages, WrappedImages}
          ELSE IF sc = "upstream-error" THEN {WrappedImages}
          ELSE {BareMovie})
    [] r = ShowDetail -> {Show(1, "Dark")}
    [] r = MovieTrending ->
         (IF sc = "movielist" THEN {MovieList, MovieListNoId}
          ELSE IF sc = "fault" THEN {MovieList, MovieListNull}
          ELSE IF sc = "single" THEN {SingleMovie}
          ELSE {MovieList})
    [] r = ShowPopular -> (IF sc = "single" THEN {SingleShow} ELSE {ShowList})
    [] r = SearchMovie -> {SearchResult}
    [] r = PeopleDetail -> {Person}
    [] r = CalendarTrending -> {MovieList}
    [] r = PostMovie -> {WrappedImages}
    [] r = OptionsMovie -> {}

\* the proxy route the requests of a run are sent to
Route(sc) == IF sc = "oldroute" THEN "trakt" ELSE "trakt-new"

\* runs in which the upstream may answer with an error status
UpstreamErrors(sc) == sc \in {"passthrough", "oldroute", "upstream-error"}

\* requests that may be in flight together
MaxInFlight(sc) ==
  IF sc \in {"movie-overlap", "movielist-overlap", "upsert-race", "lost-update"}
  THEN 2 ELSE 1

\* runs that tell apart the two phases in which the server executes
\* updateOne(filter, update, {upsert: true}): it first looks for a document
\* matching the filter and, having found none, inserts one.  The collection
\* has no unique index on `key` (the repository creates none), so two upserts
\* of one key whose lookups both found nothing both insert a document.
SplitUpsert(sc) == sc = "upsert-race"

\* runs in which the clock advances
Timed(sc) ==
  sc \in {"movie", "show", "legacy", "movielist", "showlist", "search", "store"}

\* runs in which a store operation may fail
Faulty(sc) == sc = "fault"

\* runs that may start with the database not connected
MayStartDisconnected(sc) == sc \in {"movie", "movielist-offline"}

\* runs in which the database never connects: initializeDatabase failed and
\* no endpoint that reconnects is called
NeverConnected(sc) == sc = "offline"

\* an upstream call either fails (network error, undecodable body) or answers
FetchFailed == [ok |-> FALSE, status |-> 0, body |-> Undefined]
Outcomes(sc, r) ==
  {FetchFailed}
    \cup {[ok |-> TRUE, status |-> 200, body |-> b] : b \in Bodies(sc, r)}
    \cup (IF UpstreamErrors(sc) THEN {[ok |-> TRUE, status |-> 404, body |-> ErrorBody]}
          ELSE {})

\* entries of the three historical shapes, as an earlier version left them
LegacyItem == Obj([title |-> Str("Alien")])
LegacyDocs(key) ==
  { [key |-> KeyStr(key), createdAt |-> DateV(0), data |-> Obj([data |-> LegacyItem])],
    [key |-> KeyStr(key), createdAt |-> DateV(0), data |-> LegacyItem],
    [key |-> KeyStr(key), createdAt |-> DateV(0), title |-> Str("Alien"),
     _hasImages |-> Bool(TRUE), _cacheStatus |-> Str("HIT")],
    [key |-> KeyStr(key), createdAt |-> DateV(0), title |-> Str("Alien"),
     _hasImages |-> Bool(FALSE), _cacheStatus |-> Str("STALE")] }

EmptyCache == [k \in {} |-> NoFields]

InitCaches(sc) ==
  IF sc \in {"legacy", "offline"}
  THEN UNION { {[k \in {CacheKey(r)} |-> d] : d \in LegacyDocs(CacheKey(r))} :
                 r \in Targets(sc) }
  ELSE {EmptyCache}

----------------------------------------------------------------------------
(* The handler state of a request.                                          *)

NoWriter == [by |-> 0, kind |-> "none"]

\* the keys of the per-item entries that batch extraction writes
IsItemKey(k) == Len(k) = 2 /\ k[1] \in {"trakt-movies-", "trakt-shows-"}

\* the per-item key that batch seeding uses for the item of a detail request
DetailItemKey(r) ==
  IF Len(r.segs) = 2 /\ r.segs[1] = "movies" THEN <<"trakt-movies-", r.segs[2]>>
  ELSE IF Len(r.segs) = 2 /\ r.segs[1] = "shows" THEN <<"trakt-shows-", r.segs[2]>>
  ELSE <<>>

NewRequest(id, r) ==
  [ id |-> id, route |-> Route(scenario), req |-> r, pc |-> "start", key |-> CacheKey(r),
    data |-> Undefined, cacheStatus |-> Str("MISS"), plan |-> <<>>,
    \* the response
    status |-> 0, proxied |-> FALSE, xcache |-> Undefined, body |-> Undefined,
    \* history: what the request read and did
    hit |-> FALSE, hasImages |-> Undefined, src |-> NoWriter, item0 |-> Undefined,
    shape |-> "none", marker |-> Undefined,
    primary |-> 0, enrich |-> 0, faulted |-> {}, efail |-> "none",
    after |-> {j \in 1..Len(rq) : rq[j].pc = "done"}, connected |-> isConnected,
    readAt |-> now, wroteAt |-> -1, fetched |-> Undefined, upstatus |-> 0,
    sent |-> "none",
    \* history: the documents physically present when the request arrived
    seenAge |-> IF CacheKey(r) \in DOMAIN cache
                THEN now - cache[CacheKey(r)].createdAt.ms ELSE -1,
    seenSeed |-> /\ DetailItemKey(r) \in DOMAIN cache
                 /\ ~Expired(cache[DetailItemKey(r)], now),
    had |-> {k \in DOMAIN cache : IsItemKey(k)},
    \* history: the per-item keys the request's batch extraction wrote
    seeded |-> {} ]

\* res.status(st) ... res.json(body): the handler is over
Finish(r, st, proxied, xcache, body) ==
  [r EXCEPT !.pc = "done", !.status = st, !.proxied = proxied, !.xcache = xcache,
            !.body = ToJSON(body), !.data = Undefined, !.plan = <<>>]

\* the CORS middleware: if (req.method === "OPTIONS") return res.status(204).end()
IsPreflight(r) == r.method = "OPTIONS"
Preflight(r) == Finish(r, 204, FALSE, Undefined, Undefined)

ConfigError == Obj([error |-> Str("TRAKT_CLIENT_ID not configured")])

\* a handler without the credential check: the request goes on to the upstream
ConfigFailure_Unchecked(r) == [r EXCEPT !.pc = IF r.route = "trakt" THEN "fetchTrakt" ELSE "fetch"]

\* if (!TRAKT_CLIENT_ID) return res.status(500).json({ error: ... })
ConfigFailure(r) == Finish(r, 500, FALSE, Undefined, ConfigError)
UpstreamError == Obj([error |-> Str("Upstream request failed"), detail |-> Str("message")])

\* res.status(200); res.set("x-proxied-by", ...); res.set("x-cache", cacheStatus); res.json(data)
Respond200(r) == Finish(r, 200, TRUE, r.cacheStatus, r.data)

\* a catch that answers with the data it has
Respond502_Swallowed(r) == Finish(r, 200, TRUE, r.cacheStatus, r.data)

\* the catch of the route
Respond502(r) == Finish(r, 502, FALSE, Undefined, UpstreamError)

\* the handler from the cache lookup's answer to its next await or its response
AfterLookup(r, cached) ==
  IF ~Truthy(cached) THEN [r EXCEPT !.pc = "fetch"]
  ELSE LET r1 == [r EXCEPT !.hit = TRUE, !.data = HitData(cached),
                           !.cacheStatus = HitStatus(cached),
                           !.hasImages = HasImages(cached),
                           !.src = wrote[r.key], !.item0 = HitData(cached),
                           !.shape = Shape(cached),
                           !.marker = Get(cached, "_hasImages")]
       IN IF NeedsEnrich(r.req, r1.hasImages) THEN [r1 EXCEPT !.pc = "enrich"]
          ELSE Respond200(r1)

InFlight == Cardinality({j \in 1..Len(rq) : rq[j].pc # "done"})

\* a store operation may fail only when it reaches the database
FaultChoices ==
  IF Faulty(scenario) /\ isConnected /\ faults < MaxFaults THEN BOOLEAN ELSE {FALSE}

\* the writer recorded for `key` after a write by request id
Written(key, id, kind) ==
  [k \in DOMAIN wrote \cup {key} |->
     IF k = key THEN [by |-> id, kind |-> kind] ELSE wrote[k]]

----------------------------------------------------------------------------
(* The actions: each runs a handler from one await to the next.             *)

\* a request arrives at /api/trakt-new/*: the credential check, the
\* cacheability test and the cache lookup
Arrive(r, fail) ==
  /\ Route(scenario) = "trakt-new"
  /\ Len(rq) < MaxRequests
  /\ InFlight < MaxInFlight(scenario)
  /\ fail => clientId /\ IsCacheable(r)
  /\ LET r0 == NewRequest(Len(rq) + 1, r)
     IN rq' = Append(rq,
          IF IsPreflight(r) THEN Preflight(r0)
          ELSE IF ~clientId THEN ConfigFailure(r0)
          ELSE IF ~IsCacheable(r) THEN [r0 EXCEPT !.pc = "fetch"]
          ELSE IF fail THEN Respond502([r0 EXCEPT !.faulted = {"lookup"}])
          ELSE AfterLookup(r0, GetCachedResponse(cache, r0.key, now)))
  /\ faults' = IF fail THEN faults + 1 ELSE faults
  /\ UNCHANGED <<clientId, isConnected, cache, wrote, now, ticks, scenario, calls, dups>>

\* how the enrichment of a hit went: the upstream call failed, its answer
\* could not be read, the store update failed, or nothing failed
EnrichFailure(out, fail) ==
  IF ~out.ok THEN "fetch"
  ELSE IF ~Readable(out.body) THEN "decode"
  ELSE IF ImagesFound(out.body) /\ fail THEN "update"
  ELSE "none"

\* the handler from the enrichment's upstream call to its response: every
\* failure inside the try is caught and the hit is answered
Enriched(r, out, fail) ==
  LET found == out.ok /\ ImagesFound(out.body)
  IN Respond200([r EXCEPT !.enrich = @ + 1,
                          !.data = IF found THEN MergeImages(r.data, out.body) ELSE r.data,
                          !.faulted = IF fail THEN @ \cup {"update"} ELSE @,
                          !.efail = EnrichFailure(out, fail)])

\* the image-extended upstream call of a hit, the merge and the store update
Enrich(i, out, fail) ==
  /\ rq[i].pc = "enrich"
  /\ LET r == rq[i]
         found == out.ok /\ ImagesFound(out.body)
         merged == MergeImages(r.data, out.body)
         writes == found /\ ~fail /\ isConnected /\ r.key \in DOMAIN cache
     IN /\ fail => found
        /\ cache' = IF found /\ ~fail
                    THEN UpdateCachedResponse(cache, r.key, Marked(merged, Bool(TRUE)), now)
                    ELSE cache
        /\ wrote' = IF writes THEN Written(r.key, r.id, "update") ELSE wrote
        /\ rq' = [rq EXCEPT ![i] = Enriched(r, out, fail)]
  /\ faults' = IF fail THEN faults + 1 ELSE faults
  /\ UNCHANGED <<clientId, isConnected, now, ticks, scenario, calls, dups>>

\* a miss path that stores the response of every method
StoresResponse_Always(r) == TRUE

\* if (method === "GET"): the miss path stores the response
StoresResponse(r) == r.method = "GET"

\* body: method !== "GET" ? JSON.stringify(body) : undefined
SentBody(r) == IF r.method # "GET" THEN "json" ELSE "none"

\* the primary upstream call of a miss and the cache write
Fetch(i, out, fail) ==
  /\ rq[i].pc = "fetch"
  /\ LET r == [rq[i] EXCEPT !.primary = @ + 1, !.upstatus = out.status,
                            !.sent = SentBody(rq[i].req)]
         isGet == StoresResponse(r.req)
         stores == out.ok /\ isGet /\ Readable(out.body)
         r1 == [r EXCEPT !.data = out.body, !.fetched = out.body]
         plan == IF IsListPath(r.req) THEN SeedPlan(out.body, r.req) ELSE <<>>
         \* the upsert found no document and its insert is still to come
         pending == /\ SplitUpsert(scenario) /\ stores /\ ~fail /\ isConnected
                    /\ r.key \notin DOMAIN cache
     IN /\ fail => stores
        /\ cache' = IF stores /\ ~fail /\ ~pending
                    THEN CacheResponse(cache, r.key,
                                       Marked(out.body, FetchedHasImages(out.body)), now)
                    ELSE cache
        /\ wrote' = IF stores /\ ~fail /\ isConnected /\ ~pending
                    THEN Written(r.key, r.id, "set") ELSE wrote
        /\ rq' = [rq EXCEPT ![i] =
                    IF ~out.ok THEN Respond502(r)
                    ELSE IF ~isGet THEN Respond200(r1)
                    ELSE IF ~Readable(out.body) THEN Respond502(r)
                    ELSE IF fail THEN Respond502([r1 EXCEPT !.faulted = @ \cup {"set"}])
                    ELSE IF pending THEN [r1 EXCEPT !.pc = "insert"]
                    ELSE IF plan = <<>>
                         THEN Respond200([r1 EXCEPT !.wroteAt = IF isConnected THEN now ELSE -1])
                    ELSE [r1 EXCEPT !.pc = "seedCheck", !.plan = plan,
                                    !.wroteAt = IF isConnected THEN now ELSE -1]]
  /\ faults' = IF fail THEN faults + 1 ELSE faults
  /\ UNCHANGED <<clientId, isConnected, now, ticks, scenario, calls, dups>>

\* the insert of an upsert that found no document, and the rest of the miss
\* path: the document is added to the collection whether or not another
\* upsert has inserted one for the key meanwhile.  findOne and updateOne act
\* on the first document of a key, which stays in `cache`; a later one of the
\* same key is kept in `dups`.
UpsertInsert(i) ==
  /\ rq[i].pc = "insert"
  /\ LET r == rq[i]
         data == Marked(r.data, FetchedHasImages(r.data))
         plan == IF IsListPath(r.req) THEN SeedPlan(r.data, r.req) ELSE <<>>
         first == r.key \notin DOMAIN cache
     IN /\ cache' = IF first THEN Upsert(cache, r.key, data, now) ELSE cache
        /\ dups' = IF first THEN dups ELSE Append(dups, InsertedDoc(r.key, data, now))
        /\ wrote' = IF first THEN Written(r.key, r.id, "set") ELSE wrote
        /\ rq' = [rq EXCEPT ![i] =
                    IF plan = <<>> THEN Respond200([r EXCEPT !.wroteAt = now])
                    ELSE [r EXCEPT !.pc = "seedCheck", !.plan = plan, !.wroteAt = now]]
  /\ UNCHANGED <<clientId, isConnected, now, ticks, faults, scenario, calls>>

\* a request arrives at /api/trakt/*: the credential check, then the upstream
\* call is started
ArriveTrakt(r) ==
  /\ Route(scenario) = "trakt"
  /\ Len(rq) < MaxRequests
  /\ InFlight < MaxInFlight(scenario)
  /\ LET r0 == NewRequest(Len(rq) + 1, r)
     IN rq' = Append(rq,
          IF IsPreflight(r) THEN Preflight(r0)
          ELSE IF ~clientId THEN ConfigFailure(r0)
          ELSE [r0 EXCEPT !.pc = "fetchTrakt"])
  /\ UNCHANGED <<clientId, isConnected, cache, wrote, now, ticks, faults, scenario, calls, dups>>

\* /api/trakt/*: the upstream's answer is passed on with its status; the
\* request log goes to the api_logs collection, not to the cache
FetchTrakt(i, out) ==
  /\ rq[i].pc = "fetchTrakt"
  /\ LET r == [rq[i] EXCEPT !.primary = @ + 1, !.upstatus = out.status,
                            !.sent = SentBody(rq[i].req)]
     IN rq' = [rq EXCEPT ![i] =
                 IF ~out.ok THEN Respond502(r)
                 ELSE Finish([r EXCEPT !.fetched = out.body],
                             out.status, TRUE, Undefined, out.body)]
  /\ UNCHANGED <<clientId, isConnected, cache, wrote, now, ticks, faults, scenario, calls, dups>>

\* the extractor moves on to its next call, or returns and the handler responds
NextItem(r) ==
  IF Len(r.plan) = 1 THEN Respond200(r)
  ELSE [r EXCEPT !.pc = "seedCheck", !.plan = Tail(r.plan)]

\* cacheMovieItem / cacheShowItem: "Check if already cached"
SeedCheck(i, fail) ==
  /\ rq[i].pc = "seedCheck"
  /\ LET r == rq[i]
         existing == GetCachedResponse(cache, Head(r.plan).key, now)
     IN rq' = [rq EXCEPT ![i] =
                 IF fail THEN NextItem([r EXCEPT !.faulted = @ \cup {"seedCheck"}])
                 ELSE IF Truthy(existing) THEN NextItem(r)
                 ELSE [r EXCEPT !.pc = "seedWrite"]]
  /\ faults' = IF fail THEN faults + 1 ELSE faults
  /\ UNCHANGED <<clientId, isConnected, cache, wrote, now, ticks, scenario, calls, dups>>

\* cacheMovieItem / cacheShowItem: "Cache the movie data"
SeedWrite(i, fail) ==
  /\ rq[i].pc = "seedWrite"
  /\ LET r == rq[i]
         h == Head(r.plan)
     IN /\ cache' = IF fail THEN cache ELSE CacheResponse(cache, h.key, h.payload, now)
        /\ wrote' = IF ~fail /\ isConnected THEN Written(h.key, r.id, "seed") ELSE wrote
        /\ rq' = [rq EXCEPT ![i] =
                    NextItem(IF fail THEN [r EXCEPT !.faulted = @ \cup {"seedWrite"}]
                             ELSE IF isConnected THEN [r EXCEPT !.seeded = @ \cup {h.key}]
                             ELSE r)]
  /\ faults' = IF fail THEN faults + 1 ELSE faults
  /\ UNCHANGED <<clientId, isConnected, now, ticks, scenario, calls, dups>>

\* The store's methods called directly, outside any request: the "store"
\* runs exercise the Database class on its own.
DirectCalls(sc) == sc = "store"
CallKeys == {CacheKey(MovieDetail)}
SetPayloads == {Marked(WrappedNoImages, Undefined)}
UpdatePayloads == {Marked(WrappedImages, Bool(TRUE))}

Called(op, key, data, result) ==
  Append(calls, [op |-> op, key |-> key, data |-> data, at |-> now,
                 before |-> cache, after |-> cache', result |-> result])

\* db.cacheResponse(key, data)
CallSet(key, data) ==
  /\ DirectCalls(scenario) /\ Len(calls) < MaxCalls
  /\ cache' = CacheResponse(cache, key, data, now)
  /\ wrote' = Written(key, 0, "set")
  /\ calls' = Called("set", key, data, Undefined)
  /\ UNCHANGED <<clientId, isConnected, now, ticks, faults, rq, scenario, dups>>

\* db.updateCachedResponse(key, data)
CallUpdate(key, data) ==
  /\ DirectCalls(scenario) /\ Len(calls) < MaxCalls
  /\ cache' = UpdateCachedResponse(cache, key, data, now)
  /\ calls' = Called("update", key, data, Undefined)
  /\ UNCHANGED <<clientId, isConnected, wrote, now, ticks, faults, rq, scenario, dups>>

\* db.getCachedResponse(key)
CallGet(key) ==
  /\ DirectCalls(scenario) /\ Len(calls) < MaxCalls
  /\ cache' = cache
  /\ calls' = Called("get", key, Undefined, GetCachedResponse(cache, key, now))
  /\ UNCHANGED <<clientId, isConnected, wrote, now, ticks, faults, rq, scenario, dups>>

\* time passes
Tick ==
  /\ Timed(scenario)
  /\ ticks < MaxTicks
  /\ ticks' = ticks + 1
  /\ now' = now + TickMs
  /\ UNCHANGED <<clientId, isConnected, cache, wrote, faults, rq, scenario, calls, dups>>

\* db.connect() succeeds (initializeDatabase, or an endpoint that reconnects)
Connect ==
  /\ ~isConnected
  /\ ~NeverConnected(scenario)
  /\ isConnected' = TRUE
  /\ UNCHANGED <<clientId, cache, wrote, now, ticks, faults, rq, scenario, calls, dups>>

Init ==
  /\ scenario \in Scenarios
  /\ clientId \in BOOLEAN
  /\ isConnected \in (IF NeverConnected(scenario) THEN {FALSE}
                      ELSE IF MayStartDisconnected(scenario) THEN BOOLEAN ELSE {TRUE})
  /\ cache \in InitCaches(scenario)
  /\ wrote = [k \in DOMAIN cache |-> [by |-> 0, kind |-> "legacy"]]
  /\ now = 0
  /\ ticks = 0
  /\ faults = 0
  /\ rq = <<>>
  /\ calls = <<>>
  /\ dups = <<>>

Next ==
  \/ \E r \in Targets(scenario), fail \in FaultChoices : Arrive(r, fail)
  \/ \E i \in 1..Len(rq), fail \in FaultChoices :
       \E out \in Outcomes(scenario, rq[i].req) : Enrich(i, out, fail)
  \/ \E i \in 1..Len(rq), fail \in FaultChoices :
       \E out \in Outcomes(scenario, rq[i].req) : Fetch(i, out, fail)
  \/ \E i \in 1..Len(rq) : UpsertInsert(i)
  \/ \E r \in Targets(scenario) : ArriveTrakt(r)
  \/ \E i \in 1..Len(rq) : \E out \in Outcomes(scenario, rq[i].req) : FetchTrakt(i, out)
  \/ \E i \in 1..Len(rq), fail \in FaultChoices : SeedCheck(i, fail)
  \/ \E i \in 1..Len(rq), fail \in FaultChoices : SeedWrite(i, fail)
  \/ \E key \in CallKeys, data \in SetPayloads : CallSet(key, data)
  \/ \E key \in CallKeys, data \in UpdatePayloads : CallUpdate(key, data)
  \/ \E key \in CallKeys : CallGet(key)
  \/ Tick
  \/ Connect

Spec == Init /\ [][Next]_vars

----------------------------------------------------------------------------
(* Vocabulary of the properties.                                            *)

Done(i) == rq[i].pc = "done"
Requests == 1..Len(rq)

HasField(v, k) == v.t = "object" /\ k \in DOMAIN v.f

TTLMs == TTLHours * MsPerHour

\* a request served from the normal path: the store was connected when it
\* arrived and no store operation of it failed
Normal(i) == rq[i].connected /\ rq[i].faulted = {}

IsMovieDetail(r) == StartsWith(r, <<"movies">>) /\ ~IsListPath(r)

\* an item with its images field, if any, left out
DropImages(v) == IF v.t = "object" THEN Obj(Without(v.f, "images")) ELSE v

----------------------------------------------------------------------------
(* C1: no response body of the caching route carries a marker field        *)
(* (_hasImages, _cacheStatus), whatever the shape of the stored entry.      *)
C1_NoMarkerInBody ==
  \A i \in Requests :
    Done(i) => ~HasField(rq[i].body, "_hasImages") /\ ~HasField(rq[i].body, "_cacheStatus")

(* C2: a request that reads the entry an earlier MISS stored with set is     *)
(* answered HIT, with the item fields and values of that MISS response      *)
(* except possibly an added images field.                                   *)
C2_HitRepeatsMiss ==
  \A i \in Requests, j \in Requests :
    ( /\ Done(i) /\ Done(j) /\ i \in rq[j].after
      /\ rq[i].status = 200 /\ rq[j].hit
      /\ rq[j].src = [by |-> i, kind |-> "set"] )
    => /\ rq[j].status = 200
       /\ rq[j].xcache = Str("HIT")
       /\ DropImages(rq[j].body) = DropImages(rq[i].body)

(* C3 (Scenario A): on an empty store the first GET /movies/1 makes exactly  *)
(* one upstream call, stores an entry and answers 200 MISS; a second         *)
(* GET /movies/1 within 24h makes no upstream call and answers 200 HIT.      *)
C3_ScenarioA ==
  ( /\ Len(rq) >= 2 /\ scenario # "legacy"
    /\ rq[1].req = MovieDetail /\ rq[2].req = MovieDetail
    /\ Done(2) /\ 1 \in rq[2].after
    /\ Normal(1) /\ Normal(2) /\ rq[1].status = 200
    /\ rq[2].readAt - rq[1].wroteAt <= TTLMs )
  => /\ rq[1].primary = 1 /\ rq[1].enrich = 0
     /\ rq[1].xcache = Str("MISS")
     /\ rq[1].key \in DOMAIN cache
     /\ rq[2].status = 200 /\ rq[2].xcache = Str("HIT")
     /\ rq[2].primary = 0 /\ rq[2].enrich = 0

(* C4 (Scenario B): once an enrichment has persisted the entry with          *)
(* hasImages = true, every later GET that reads that entry reads hasImages   *)
(* as true and makes no enrichment call.                                     *)
C4_EnrichOnce ==
  \A i \in Requests, j \in Requests :
    ( /\ Done(i) /\ Done(j)
      /\ rq[j].hit /\ rq[j].src = [by |-> i, kind |-> "update"] )
    => /\ Get(Get(Obj(cache[rq[i].key]), "data"), "_hasImages") = Bool(TRUE)
       /\ Truthy(rq[j].hasImages)
       /\ rq[j].enrich = 0

(* C5: a request makes an enrichment call if and only if it is a cache hit   *)
(* on a movie-detail path whose hasImages is false, and then exactly one;    *)
(* hits on show, search and list paths make none.                            *)
C5_EnrichOnlyMovieDetail ==
  \A i \in Requests :
    Done(i) =>
      rq[i].enrich =
        IF rq[i].hit /\ IsMovieDetail(rq[i].req) /\ ~Truthy(rq[i].hasImages)
        THEN 1 ELSE 0

C7_SeedingNeverOverwrites ==
  [][\A k \in DOMAIN cache : IsItemKey(k) => cache'[k] = cache[k]]_vars

(* C8 (Scenario C, lookup): a GET /movies/X that arrives while a fresh       *)
(* per-item entry seeded for movie X is in the store is answered HIT with no *)
(* upstream call.                                                            *)
C8_SeededDetailHits ==
  \A j \in Requests :
    (Done(j) /\ clientId /\ Normal(j) /\ rq[j].seenSeed)
    => /\ rq[j].status = 200 /\ rq[j].xcache = Str("HIT")
       /\ rq[j].primary = 0 /\ rq[j].enrich = 0

\* the kind of item a list endpoint lists
ListKind(r) == IF IncludesDir(r, "movies") THEN "movie" ELSE "show"

ItemKey(kind, id) == IF kind = "movie" THEN MovieItemKey(id) ELSE ShowItemKey(id)

\* every element of the list is an object with the nested item of the kind
WellShaped(list, kind) ==
  /\ IsArray(list)
  /\ \A n \in 1..Len(list.a) : list.a[n].t = "object" /\ HasField(list.a[n], kind)

\* the provider ids of the elements of a list
ElemIds(list, kind) ==
  { Get(Get(Get(list.a[n], kind), "ids"), "trakt").n :
      n \in {m \in 1..Len(list.a) :
               Get(Get(Get(list.a[m], kind), "ids"), "trakt").t = "number"} }

\* a completed miss on a list endpoint, on the normal path
ListMiss(i) ==
  /\ Done(i) /\ clientId /\ Normal(i)
  /\ IsCacheable(rq[i].req) /\ IsListPath(rq[i].req)
  /\ rq[i].status = 200 /\ ~rq[i].hit
  /\ WellShaped(rq[i].fetched, ListKind(rq[i].req))

\* the per-item keys of the elements of a list
ElemKeys(list, kind) == {ItemKey(kind, id) : id \in ElemIds(list, kind)}

(* C9: after a miss on a list endpoint whose response is an array of        *)
(* {movie: ...} (resp. {show: ...}) elements, the store holds the list-level *)
(* entry under the request key and a per-item entry for every element id;    *)
(* the request wrote per-item entries only for element ids, none for an id   *)
(* that already had an entry when it arrived, and one for every element id   *)
(* that had none unless another request wrote it meanwhile.                  *)
C9_ListMissSeedsItems ==
  \A i \in Requests :
    ListMiss(i) =>
      LET keys == ElemKeys(rq[i].fetched, ListKind(rq[i].req))
      IN /\ rq[i].key \in DOMAIN cache
         /\ keys \subseteq DOMAIN cache
         /\ rq[i].seeded \subseteq keys
         /\ rq[i].seeded \cap rq[i].had = {}
         /\ \A k \in keys \ rq[i].had : k \in rq[i].seeded \/ wrote[k].by # i

(* What remains of C9 when entries that are physically present but older     *)
(* than the TTL are left aside: every element id has an entry after the      *)
(* miss, and the request wrote per-item entries only for element ids.        *)
ListMissSeedsMissingItems ==
  \A i \in Requests :
    ListMiss(i) =>
      LET keys == ElemKeys(rq[i].fetched, ListKind(rq[i].req))
      IN /\ rq[i].key \in DOMAIN cache
         /\ keys \subseteq DOMAIN cache
         /\ rq[i].seeded \subseteq keys

\* the enrichment of request i failed
EnrichFailed(i) == rq[i].efail # "none"

\* a store or decode step of the batch extraction of request i failed
SeedFailed(i) ==
  \/ rq[i].faulted \cap {"seedCheck", "seedWrite"} # {}
  \/ /\ IsArray(rq[i].fetched) /\ IsListPath(rq[i].req)
     /\ \E n \in 1..Len(rq[i].fetched.a) : ~Readable(rq[i].fetched.a[n])

(* C10: whichever step of the enrichment fails, the hit is answered 200 HIT *)
(* with the cached item without images; whichever step of the batch         *)
(* extraction fails, the miss is answered 200 MISS with the fetched list and *)
(* the list-level entry is stored.                                           *)
C10_SecondaryFailureKeepsResponse ==
  \A i \in Requests :
    Done(i) =>
      /\ EnrichFailed(i) =>
           /\ rq[i].status = 200 /\ rq[i].xcache = Str("HIT")
           /\ rq[i].body = ToJSON(rq[i].item0)
      /\ (SeedFailed(i) /\ rq[i].faulted \cap {"lookup", "set"} = {}) =>
           /\ rq[i].status = 200 /\ rq[i].xcache = Str("MISS")
           /\ rq[i].body = rq[i].fetched
           /\ rq[i].key \in DOMAIN cache

\* the store was unavailable during the whole of request i
Unavailable(i) == ~rq[i].connected /\ ~isConnected

(* C11: while the store is unavailable (isConnected false), a cacheable GET  *)
(* on the caching route reads no entry, makes exactly one primary upstream   *)
(* fetch and no enrichment call, seeds nothing, and if the upstream answers  *)
(* is answered 200 MISS with the upstream data; no entry of the store is     *)
(* created or modified.                                                      *)
C11_UnavailableIsPassthrough ==
  /\ \A i \in Requests :
       (Done(i) /\ clientId /\ Unavailable(i) /\ IsCacheable(rq[i].req)) =>
         /\ ~rq[i].hit /\ rq[i].src = NoWriter
         /\ rq[i].primary = 1 /\ rq[i].enrich = 0
         /\ rq[i].seeded = {} /\ rq[i].wroteAt = -1
         /\ rq[i].fetched # Undefined =>
              /\ rq[i].status = 200 /\ rq[i].proxied
              /\ rq[i].xcache = Str("MISS")
              /\ rq[i].body = ToJSON(rq[i].fetched)
  /\ ~isConnected =>
       /\ cache \in InitCaches(scenario)
       /\ \A k \in DOMAIN wrote : wrote[k].kind = "legacy"

\* with entries in the unavailable store, a detail request and a list request
\* were both answered from upstream
C11_Witness ==
  /\ ~isConnected /\ cache # EmptyCache
  /\ \E i \in Requests, j \in Requests :
       /\ Done(i) /\ Unavailable(i) /\ rq[i].req = MovieDetail
       /\ rq[i].key \in DOMAIN cache /\ rq[i].status = 200
       /\ Done(j) /\ Unavailable(j) /\ rq[j].req = MovieTrending /\ rq[j].status = 200

\* the primary upstream call of request i was made and failed: a network
\* error, or an answer that could not be decoded
PrimaryFailed(i) == rq[i].primary = 1 /\ rq[i].upstatus = 0

(* C12: a request whose primary upstream fetch fails is answered 502 with an *)
(* {error, detail} body and gets no 200 response, on cacheable and           *)
(* non-cacheable paths and on both proxy routes.                             *)
C12_PrimaryFailureIs502 ==
  \A i \in Requests :
    (Done(i) /\ PrimaryFailed(i)) =>
      /\ rq[i].status = 502
      /\ rq[i].body = UpstreamError
      /\ DOMAIN rq[i].body.f = {"error", "detail"}
      /\ rq[i].xcache = Undefined /\ ~rq[i].proxied

\* the primary fetch failed for a cacheable and for a non-cacheable request
C12_Witness ==
  \E i \in Requests, j \in Requests :
    /\ Done(i) /\ PrimaryFailed(i) /\ IsCacheable(rq[i].req) /\ rq[i].status = 502
    /\ Done(j) /\ PrimaryFailed(j) /\ ~IsCacheable(rq[j].req) /\ rq[j].status = 502

\* the upstream answered the primary call of request i with an error status
PrimaryErrorStatus(i) == rq[i].primary = 1 /\ rq[i].upstatus >= 400

(* C13: the primary fetch of a cacheable request that the upstream answers   *)
(* with an error status writes no entry for the key, and no later request is *)
(* answered HIT from an entry that such a fetch wrote.                       *)
C13_ErrorAnswerNotCached ==
  /\ \A i \in Requests :
       (PrimaryErrorStatus(i) /\ IsCacheable(rq[i].req)) =>
         rq[i].wroteAt = -1 /\ rq[i].seeded = {}
  /\ \A j \in Requests :
       (Done(j) /\ rq[j].hit /\ rq[j].src.kind = "set") =>
         ~PrimaryErrorStatus(rq[j].src.by)

\* a cacheable request of the caching route that was served
Served(i) ==
  /\ Done(i) /\ rq[i].route = "trakt-new" /\ IsCacheable(rq[i].req)
  /\ rq[i].status \notin {500, 502}

(* C14: every served cacheable request gets status 200, the proxy-identity   *)
(* header and a cache status that is HIT or MISS: HIT exactly when the body  *)
(* was taken from a stored entry, MISS exactly when it was fetched from      *)
(* upstream in this request, whatever the shape of the stored entry.         *)
C14_CacheStatusIsHitOrMiss ==
  \A i \in Requests :
    Served(i) =>
      /\ rq[i].status = 200 /\ rq[i].proxied
      /\ rq[i].xcache \in {Str("HIT"), Str("MISS")}
      /\ rq[i].xcache = Str("HIT") <=> rq[i].hit
      /\ rq[i].xcache = Str("MISS") <=> (rq[i].primary = 1 /\ ~rq[i].hit)

\* request i bypasses the cache: any request of /api/trakt/*, and a request
\* of /api/trakt-new/* that fails the cacheability test
Bypasses(i) == rq[i].route = "trakt" \/ ~IsCacheable(rq[i].req)

(* C15: a non-cacheable request that the upstream answers is answered with   *)
(* the status code of the upstream response, on both proxy routes.           *)
C15_PassthroughKeepsStatus ==
  \A i \in Requests :
    (Done(i) /\ Bypasses(i) /\ rq[i].primary = 1 /\ rq[i].upstatus # 0) =>
      rq[i].status = rq[i].upstatus

(* C16: a request that is not cacheable (any non-GET, and a GET whose path   *)
(* starts with none of the prefixes) neither reads nor writes an entry and   *)
(* seeds nothing, also when its path contains /trending or /popular: no      *)
(* entry of the store was written by such a request.                         *)
C16_NonCacheableLeavesStore ==
  /\ \A i \in Requests :
       ~IsCacheable(rq[i].req) =>
         /\ ~rq[i].hit /\ rq[i].src = NoWriter
         /\ rq[i].wroteAt = -1 /\ rq[i].seeded = {}
         /\ rq[i].pc \notin {"seedCheck", "seedWrite", "enrich"}
  /\ \A k \in DOMAIN wrote :
       wrote[k].by \in Requests => IsCacheable(rq[wrote[k].by].req)

\* request i did no cache or upstream work
DidNothing(i) ==
  /\ Done(i)
  /\ ~rq[i].hit /\ rq[i].src = NoWriter
  /\ rq[i].primary = 0 /\ rq[i].enrich = 0
  /\ rq[i].wroteAt = -1 /\ rq[i].seeded = {}

\* no request has changed the store: it is as it started, or as the last
\* direct call of a store method left it
StoreUntouched ==
  /\ calls = <<>> => cache \in InitCaches(scenario)
  /\ calls # <<>> => cache = calls[Len(calls)].after
  /\ \A k \in DOMAIN wrote : wrote[k].by \notin Requests

(* C17: when the upstream credential is missing, every request to either    *)
(* proxy route, whatever its method, path and cacheability, is answered with *)
(* the 500 configuration error before any cache read, cache write or         *)
(* upstream call, and the store is unchanged.                                *)
C17_MissingCredentialIs500 ==
  ~clientId =>
    /\ \A i \in Requests :
         DidNothing(i) /\ rq[i].status = 500 /\ rq[i].body = ConfigError
    /\ StoreUntouched

(* C17, amended: when the upstream credential is missing, every request to   *)
(* either proxy route with a method other than OPTIONS is answered with the  *)
(* 500 configuration error before any cache read, cache write or upstream    *)
(* call; an OPTIONS request is answered 204 by the CORS middleware, likewise *)
(* without cache or upstream work; the store is unchanged.                   *)
C17_MissingCredentialFailsFast ==
  ~clientId =>
    /\ \A i \in Requests :
         /\ DidNothing(i)
         /\ ~IsPreflight(rq[i].req) => rq[i].status = 500 /\ rq[i].body = ConfigError
         /\ IsPreflight(rq[i].req) => rq[i].status = 204 /\ rq[i].body = Undefined
    /\ StoreUntouched

\* without credential, a GET, a POST and a preflight have been answered
C17_Witness ==
  /\ ~clientId
  /\ \E i \in Requests, j \in Requests, k \in Requests :
       /\ rq[i].req.method = "GET" /\ rq[i].status = 500
       /\ rq[j].req.method = "POST" /\ rq[j].status = 500
       /\ rq[k].req.method = "OPTIONS" /\ rq[k].status = 204

\* the freshness window the documentation gives the endpoint of a request
DocumentedTTLMs(r) ==
  IF StartsWith(r, <<"search">>) THEN SearchTTLMinutes * SecondsPerMinute * MsPerSecond
  ELSE IF IsListPath(r) THEN ListTTLHours * MsPerHour
  ELSE TTLHours * MsPerHour

(* C18: the freshness window depends on the endpoint type: no request is     *)
(* answered HIT from a search entry older than 30 minutes, from a            *)
(* popular/trending list entry older than 2 hours, or from a movie/show      *)
(* detail entry older than 24 hours.                                         *)
C18_FreshnessPerEndpointType ==
  \A j \in Requests :
    (rq[j].hit /\ IsCacheable(rq[j].req)) =>
      rq[j].seenAge <= DocumentedTTLMs(rq[j].req)

\* the keys that cacheResponse has written: by a primary fetch, by batch
\* seeding, or by a direct call
SetKeys ==
  {rq[i].key : i \in {j \in Requests : rq[j].wroteAt >= 0}}
    \cup UNION {rq[i].seeded : i \in Requests}
    \cup {calls[n].key : n \in {m \in 1..Len(calls) : calls[m].op = "set"}}

\* the keys of the entries an earlier run left in the store
InitKeys == UNION {DOMAIN c : c \in InitCaches(scenario)}

(* C19: updateCachedResponse never creates an entry: on a key with no entry  *)
(* it leaves the store unchanged; on a key with an entry it replaces the     *)
(* payload and sets updatedAt, leaving key, createdAt and every other entry  *)
(* unchanged.  So the keys present are exactly the keys cacheResponse has    *)
(* written (besides the entries the store started with).                     *)
C19_UpdateNeverCreates ==
  /\ \A n \in 1..Len(calls) :
       calls[n].op = "update" =>
         LET c == calls[n]
         IN IF c.key \notin DOMAIN c.before THEN c.after = c.before
            ELSE /\ DOMAIN c.after = DOMAIN c.before
                 /\ \A k \in DOMAIN c.before \ {c.key} : c.after[k] = c.before[k]
                 /\ DOMAIN c.after[c.key] = DOMAIN c.before[c.key] \cup {"updatedAt"}
                 /\ c.after[c.key].key = c.before[c.key].key
                 /\ c.after[c.key].createdAt = c.before[c.key].createdAt
                 /\ c.after[c.key].data = ToBSON(c.data)
                 /\ c.after[c.key].updatedAt = DateV(c.at)
  /\ \A i \in Requests, k \in DOMAIN wrote :
       wrote[k] = [by |-> i, kind |-> "update"] =>
         k \in SetKeys \cup InitKeys /\ "updatedAt" \in DOMAIN cache[k]
  /\ SetKeys \subseteq DOMAIN cache
  /\ DOMAIN cache \subseteq SetKeys \cup InitKeys

\* updateCachedResponse was called on a key with no entry and on a key with
\* an entry
C19_Witness ==
  \E n \in 1..Len(calls), m \in 1..Len(calls) :
    /\ calls[n].op = "update" /\ calls[n].key \notin DOMAIN calls[n].before
    /\ calls[m].op = "update" /\ calls[m].key \in DOMAIN calls[m].before

\* call n is a get that directly follows, at the same instant, an update of
\* the same key, whose entry was then older than the freshness window
GetAfterStaleUpdate(n) ==
  /\ n \in 2..Len(calls)
  /\ calls[n].op = "get" /\ calls[n - 1].op = "update"
  /\ calls[n].key = calls[n - 1].key /\ calls[n].at = calls[n - 1].at
  /\ calls[n].key \in DOMAIN calls[n - 1].before
  /\ Expired(calls[n - 1].before[calls[n].key], calls[n - 1].at)

(* C20: updateCachedResponse can resurrect a stale entry: after it is        *)
(* applied to an entry whose createdAt is more than 24 hours in the past, a  *)
(* getCachedResponse for that key immediately afterwards returns the entry.  *)
C20_UpdateResurrectsStale ==
  \A n \in 1..Len(calls) :
    GetAfterStaleUpdate(n) =>
      /\ Truthy(calls[n].result)
      /\ calls[n].result = Obj(calls[n].before[calls[n].key])

(* C20, amended: updateCachedResponse does not re-check the TTL (it rewrites *)
(* the payload of an entry older than 24 hours and sets updatedAt) but it    *)
(* leaves createdAt unchanged, so it does not resurrect the entry: a         *)
(* getCachedResponse for that key immediately afterwards still returns null. *)
C20_UpdateKeepsStale ==
  \A n \in 1..Len(calls) :
    GetAfterStaleUpdate(n) =>
      LET u == calls[n - 1]
      IN /\ u.after[u.key].data = ToBSON(u.data)
         /\ u.after[u.key].updatedAt = DateV(u.at)
         /\ u.after[u.key].createdAt = u.before[u.key].createdAt
         /\ calls[n].before = u.after
         /\ calls[n].result = Null

\* an entry was set, grew older than 24 hours, was updated and then looked up
C20_Witness ==
  \E n \in 1..Len(calls) :
    /\ GetAfterStaleUpdate(n)
    /\ calls[n - 1].after # calls[n - 1].before

\* the first piece of a key: a primary key starts with the "/" of its path
IsPrimaryKey(k) == Len(k) > 0 /\ k[1] = "/"

\* the ids one decimal digit can name
ItemIds == 0..(Len(Digits) - 1)

(* C21: the primary key family (path plus serialized query, beginning with   *)
(* "/") and the batch-seeded key family (trakt-movies-<id>, trakt-shows-<id>) *)
(* are disjoint: no primary fetch or enrichment writes a key of the seeded    *)
(* family, no seeding step writes a key of the primary family, and a movie id *)
(* and a show id of the same value map to different keys.                     *)
C21_KeyFamiliesDisjoint ==
  /\ \A i \in Requests :
       /\ IsPrimaryKey(rq[i].key) /\ ~IsItemKey(rq[i].key)
       /\ \A k \in rq[i].seeded : IsItemKey(k) /\ ~IsPrimaryKey(k)
       /\ rq[i].plan # <<>> =>
            IsItemKey(Head(rq[i].plan).key) /\ ~IsPrimaryKey(Head(rq[i].plan).key)
  /\ \A k \in DOMAIN wrote :
       /\ wrote[k].by \in Requests /\ wrote[k].kind \in {"set", "update"} =>
            IsPrimaryKey(k) /\ ~IsItemKey(k)
       /\ wrote[k].kind = "seed" => IsItemKey(k) /\ ~IsPrimaryKey(k)
  /\ \A m \in ItemIds, n \in ItemIds :
       /\ MovieItemKey(m) # ShowItemKey(n)
       /\ \A r \in Targets(scenario) : CacheKey(r) \notin {MovieItemKey(m), ShowItemKey(n)}

\* a list miss has stored its list entry and seeded per-item entries, and a
\* later hit on the list has enriched the list entry
C21_Witness ==
  \E k \in DOMAIN wrote, j \in DOMAIN wrote, i \in Requests :
    /\ wrote[k].kind = "update" /\ wrote[j].kind = "seed"
    /\ Cardinality(rq[i].seeded) = 2

\* an array element that carries the nested item of the kind with a provider id
Decodable(elem, kind) ==
  /\ elem.t = "object" /\ HasField(elem, kind)
  /\ Get(Get(Get(elem, kind), "ids"), "trakt").t = "number"

\* a completed miss on a list endpoint that was answered with an array
ArrayListMiss(i) ==
  /\ Done(i) /\ clientId /\ Normal(i)
  /\ IsCacheable(rq[i].req) /\ IsListPath(rq[i].req)
  /\ rq[i].status = 200 /\ ~rq[i].hit
  /\ IsArray(rq[i].fetched)

\* the per-item key of a decodable element
ElemKey(elem, kind) == ItemKey(kind, Get(Get(Get(elem, kind), "ids"), "trakt").n)

(* C22: batch extraction treats the elements of a list response on their own: *)
(* when an element cannot be decoded (it is null, or has no usable nested     *)
(* item), every later element of the response that can be decoded and had no  *)
(* per-item entry still gets its entry.                                       *)
C22_ElementsIndependent ==
  \A i \in Requests :
    ArrayListMiss(i) =>
      LET a == rq[i].fetched.a
          kind == ListKind(rq[i].req)
      IN \A m \in 1..Len(a), n \in 1..Len(a) :
           ( /\ m < n /\ ~Decodable(a[m], kind) /\ Decodable(a[n], kind)
             /\ ElemKey(a[n], kind) \notin rq[i].had )
           => ElemKey(a[n], kind) \in DOMAIN cache

\* the same for elements that are objects without a usable nested item
ObjectElementsIndependent ==
  \A i \in Requests :
    ArrayListMiss(i) =>
      LET a == rq[i].fetched.a
          kind == ListKind(rq[i].req)
      IN \A m \in 1..Len(a), n \in 1..Len(a) :
           ( /\ m < n /\ Readable(a[m]) /\ ~Decodable(a[m], kind) /\ Decodable(a[n], kind)
             /\ ElemKey(a[n], kind) \notin rq[i].had )
           => ElemKey(a[n], kind) \in DOMAIN cache

\* request j was answered from an entry an earlier version of the service left
LegacyHit(j) == rq[j].hit /\ rq[j].src.kind = "legacy"

(* C23: shape invariance of the read path: a double-nested entry, a          *)
(* single-nested entry and a direct entry holding the same item and the same *)
(* image state yield the same logical item (the item's fields, without key,  *)
(* createdAt or markers) and the same hasImages; for the two nested shapes   *)
(* hasImages is true.                                                        *)
C23_ShapeInvariance ==
  \A j \in Requests :
    LegacyHit(j) =>
      /\ ToJSON(rq[j].item0) = LegacyItem
      /\ rq[j].shape \in {"double", "single"} => rq[j].hasImages = Bool(TRUE)
      /\ rq[j].shape = "direct" => rq[j].hasImages = rq[j].marker

\* what the two nested shapes do have in common in the code: the item is
\* extracted whole, and hasImages is read as false
NestedShapesAgree ==
  \A j \in Requests :
    (LegacyHit(j) /\ rq[j].shape \in {"double", "single"}) =>
      /\ ToJSON(rq[j].item0) = LegacyItem
      /\ rq[j].hasImages = Bool(FALSE)

\* a response that is one object carrying the nested item of the kind with a
\* provider id, and no numeric-string keys
SingleItem(data, kind) ==
  /\ data.t = "object"
  /\ Decodable(data, kind)
  /\ \A k \in DOMAIN data.f : ~IsNumericKey(k)

(* C24: when the whole response of a list endpoint is a single non-array     *)
(* object carrying a nested movie (movie list endpoint) or show (show list   *)
(* endpoint) with a provider id, and no numeric-string keys, batch           *)
(* extraction seeds the per-item entry for that nested object.               *)
C24_SingleObjectSeeded ==
  \A i \in Requests :
    ( /\ Done(i) /\ clientId /\ Normal(i)
      /\ IsCacheable(rq[i].req) /\ IsListPath(rq[i].req)
      /\ rq[i].status = 200 /\ ~rq[i].hit
      /\ SingleItem(rq[i].fetched, ListKind(rq[i].req)) )
    => ElemKey(rq[i].fetched, ListKind(rq[i].req)) \in DOMAIN cache

\* a step that is a getCachedResponse: the lookup of an arriving request, the
\* existence check of batch seeding, or a direct call
ReadStep ==
  \/ Len(rq') = Len(rq) + 1
  \/ \E i \in Requests : rq[i].pc = "seedCheck" /\ rq'[i] # rq[i]
  \/ Len(calls') = Len(calls) + 1 /\ calls'[Len(calls')].op = "get"

\* no step removes a document, and a read changes none
NothingRemoved ==
  /\ ReadStep => cache' = cache /\ dups' = dups
  /\ DOMAIN cache \subseteq DOMAIN cache'
  /\ Len(dups') >= Len(dups) /\ SubSeq(dups', 1, Len(dups)) = dups

(* C25: the store is non-destructive: getCachedResponse never modifies or    *)
(* removes an entry, stale or not, no operation deletes an entry, so the set *)
(* of keys physically present only grows, and the collection holds at most   *)
(* one entry per key.                                                        *)
C25_StoreNonDestructive ==
  [][NothingRemoved /\ dups' = <<>>]_vars

\* the part of C25 that does not depend on how many documents a key has
StoreOnlyGrows == [][NothingRemoved]_vars

\* requests i and j overlapped, both missed on the same key and both were served
ConcurrentMisses(i, j) ==
  /\ i < j /\ Done(i) /\ Done(j) /\ i \notin rq[j].after
  /\ clientId /\ Normal(i) /\ Normal(j)
  /\ IsCacheable(rq[i].req) /\ rq[i].key = rq[j].key
  /\ ~rq[i].hit /\ ~rq[j].hit
  /\ rq[i].status = 200 /\ rq[j].status = 200

\* both fetched, each was answered MISS with the data of its own fetch, and
\* the entry read under the key holds the whole payload of the last set
LastWriteWins(i, j) ==
  /\ rq[i].primary = 1 /\ rq[j].primary = 1
  /\ rq[i].xcache = Str("MISS") /\ rq[j].xcache = Str("MISS")
  /\ rq[i].body = ToJSON(rq[i].fetched) /\ rq[j].body = ToJSON(rq[j].fetched)
  /\ rq[i].key \in DOMAIN cache
  /\ wrote[rq[i].key].kind = "set" =>
       LET w == rq[wrote[rq[i].key].by]
       IN cache[rq[i].key].data = ToBSON(Marked(w.fetched, FetchedHasImages(w.fetched)))

(* C26: two concurrent requests that both miss on the same key both issue a  *)
(* primary fetch and both call set (no single-flight); after both complete   *)
(* there is exactly one entry for the key, its payload is the payload of the *)
(* set that ran last, never a mixture, and each caller receives the data of  *)
(* its own fetch with cache status MISS.                                     *)
C26_ConcurrentMisses ==
  \A i \in Requests, j \in Requests :
    ConcurrentMisses(i, j) =>
      /\ LastWriteWins(i, j)
      /\ \A n \in 1..Len(dups) : dups[n].key # KeyStr(rq[i].key)

\* C26 without the count of the entries of the key
ConcurrentMissesLastWriteWins ==
  \A i \in Requests, j \in Requests : ConcurrentMisses(i, j) => LastWriteWins(i, j)

\* the fields of an item other than its images: the markers are left out, and
\* so are the images of the nested movie, and a nested movie that holds
\* nothing else
ItemFields(d) ==
  IF d.t # "object" THEN d
  ELSE LET f == Without(Without(d.f, "_hasImages"), "_cacheStatus")
           m == DropImages(Get(d, "movie"))
       IN Obj(IF "movie" \notin DOMAIN f THEN f
              ELSE IF m = Obj(NoFields) THEN Without(f, "movie")
              ELSE With(f, "movie", m))

\* the item the read path extracts from the entry stored under a key
StoredItem(c, key) == ItemFields(HitData(Obj(c[key])))

\* request i completes its enrichment in this step and the entry changes
EnrichmentWrites(i) ==
  /\ rq[i].pc = "enrich" /\ rq'[i].pc = "done"
  /\ rq[i].key \in DOMAIN cache
  /\ cache'[rq[i].key] # cache[rq[i].key]

(* C27: enrichment does not lose another request's write: under any          *)
(* interleaving of requests on one key, when an enrichment persists through  *)
(* updateCachedResponse, the item fields it writes, other than images, equal *)
(* those of the entry stored at that moment; it never replaces a payload a   *)
(* concurrent miss stored after the enriching request read the entry.        *)
C27_EnrichmentKeepsOthersWrite ==
  [][\A i \in Requests :
       EnrichmentWrites(i) => StoredItem(cache', rq[i].key) = StoredItem(cache, rq[i].key)]_vars

\* the same for an enrichment during which no other request wrote the entry
UndisturbedEnrichmentKeepsItem ==
  [][\A i \in Requests :
       (EnrichmentWrites(i) /\ wrote[rq[i].key] = rq[i].src)
       => StoredItem(cache', rq[i].key) = StoredItem(cache, rq[i].key)]_vars

\* request i read no entry, ran no enrichment and no seeding, and wrote nothing
TouchedNoEntry(i) ==
  /\ ~rq[i].hit /\ rq[i].src = NoWriter /\ rq[i].shape = "none"
  /\ rq[i].enrich = 0 /\ rq[i].plan = <<>> /\ rq[i].seeded = {}
  /\ rq[i].wroteAt = -1
  /\ \A k \in DOMAIN wrote : wrote[k].by # i

\* request i made one upstream call, with the JSON body, and if the upstream
\* answered it was reported MISS with the upstream's data
OneCallReportedMiss(i) ==
  /\ rq[i].primary = 1 /\ rq[i].sent = "json"
  /\ rq[i].upstatus # 0 =>
       /\ rq[i].status = 200 /\ rq[i].xcache = Str("MISS")
       /\ rq[i].body = ToJSON(rq[i].fetched)

\* a completed request to the caching route with a method other than GET,
\* the credential being configured
NonGet(i) ==
  /\ Done(i) /\ clientId /\ rq[i].route = "trakt-new"
  /\ rq[i].req.method # "GET"

(* C28: a non-GET request to the caching route never reads, creates or       *)
(* modifies a cache entry and never triggers enrichment or batch seeding; it *)
(* makes exactly one upstream call, carrying the JSON body, and is reported  *)
(* with cache status MISS.                                                   *)
C28_NonGetBypassesCache ==
  \A i \in Requests : NonGet(i) => TouchedNoEntry(i) /\ OneCallReportedMiss(i)

(* C28, amended: a non-GET request to the caching route never reads, creates *)
(* or modifies a cache entry and never triggers enrichment or batch seeding; *)
(* unless it is an OPTIONS request, which the CORS middleware answers 204    *)
(* with no upstream call, it makes exactly one upstream call, carrying the   *)
(* JSON body, and is reported with cache status MISS.                        *)
C28_NonGetTouchesNoEntry ==
  \A i \in Requests :
    NonGet(i) =>
      /\ TouchedNoEntry(i)
      /\ ~IsPreflight(rq[i].req) => OneCallReportedMiss(i)
      /\ IsPreflight(rq[i].req) => rq[i].primary = 0 /\ rq[i].status = 204

\* a POST on a path whose GET has a stored entry was answered MISS from
\* upstream, and the entry is as the GET left it
C28_Witness ==
  \E i \in Requests, j \in Requests :
    /\ NonGet(j) /\ rq[j].req = PostMovie /\ rq[j].status = 200
    /\ i \in rq[j].after /\ rq[i].req = MovieDetail
    /\ rq[j].key \in DOMAIN cache
    /\ wrote[rq[j].key] = [by |-> i, kind |-> "set"]

\* request j was answered HIT from the entry that the MISS of request i wrote
\* for a cacheable list or search GET the upstream answered with an array
ListRoundTrip(i, j) ==
  /\ Done(i) /\ Done(j) /\ i \in rq[j].after
  /\ IsCacheable(rq[i].req)
  /\ IsListPath(rq[i].req) \/ StartsWith(rq[i].req, <<"search">>)
  /\ rq[i].status = 200 /\ ~rq[i].hit /\ IsArray(rq[i].fetched)
  /\ rq[j].hit /\ rq[j].src = [by |-> i, kind |-> "set"]

(* C29: storing and reading back keeps the container kind of a list          *)
(* response: when the upstream answers a cacheable list or search GET with   *)
(* an array of n elements, a HIT served from the entry written on that MISS  *)
(* returns an array of the same n elements in the same order, not an object  *)
(* keyed by index.                                                           *)
C29_ListRoundTrip ==
  \A i \in Requests, j \in Requests :
    ListRoundTrip(i, j) =>
      /\ IsArray(rq[j].body)
      /\ rq[j].body = ToJSON(rq[i].fetched)

\* what the HIT returns instead: an object that holds the elements under
\* their indices
ListRoundTripKeepsElements ==
  \A i \in Requests, j \in Requests :
    ListRoundTrip(i, j) =>
      /\ rq[j].item0.t = "object"
      /\ \A n \in 1..Len(rq[i].fetched.a) :
           Get(rq[j].item0, IdToString(n - 1)) = ToBSON(rq[i].fetched.a[n])

\* the store was connected and the cache lookup or the cache write of the
\* primary path of request i threw; an upstream call that was made answered
PrimaryStoreError(i) ==
  /\ Done(i) /\ clientId /\ rq[i].connected
  /\ rq[i].faulted \cap {"lookup", "set"} # {}
  /\ rq[i].primary = 1 => rq[i].upstatus # 0

(* C30: a store error on the primary path does not fail a request whose      *)
(* upstream data is available: if the store is connected but the cache       *)
(* lookup, or the cache write after a successful primary fetch, throws, the  *)
(* caller still receives the upstream data with status 200 and cache status  *)
(* MISS, not a 502 "Upstream request failed".                                *)
C30_StoreErrorKeepsResponse ==
  \A i \in Requests :
    PrimaryStoreError(i) =>
      /\ rq[i].status = 200 /\ rq[i].xcache = Str("MISS")
      /\ rq[i].primary = 1
      /\ rq[i].body = ToJSON(rq[i].fetched)

\* what the code does instead: it answers 502, and after a failed lookup it
\* makes no upstream call at all
StoreErrorIs502 ==
  \A i \in Requests :
    PrimaryStoreError(i) =>
      /\ rq[i].status = 502 /\ rq[i].body = ToJSON(UpstreamError)
      /\ "lookup" \in rq[i].faulted => rq[i].primary = 0
      /\ "set" \in rq[i].faulted => rq[i].primary = 1 /\ rq[i].fetched # Undefined

====
